---- MODULE Spec2Model ----
(***************************************************************************)
(* Host side of the sandbox bridge of the wasmtime executor:               *)
(* HostState (sandbox registry slot, allocator slot, panic message),       *)
(* HostContext's FunctionContext and Sandbox implementations, and the      *)
(* SandboxContext through which a sandboxed guest calls back into the      *)
(* supervisor (client/executor/wasmtime/src/host.rs).                      *)
(*                                                                         *)
(* Option<T> is modelled as a sequence of length 0 (None) or 1 (Some).     *)
(* A host call that drives guest code (invoke, instance_new) is modelled   *)
(* as a frame on `stack`: the call action pushes the frame, the guest      *)
(* phase may re-enter the host, and the finish action pops the frame.      *)
(***************************************************************************)
EXTENDS Integers, Sequences, FiniteSets, TLC

\* ------------------------------------------------------------------ bounds
MaxDepth == 2           \* frames that may be live at once (nesting of guest calls)
MaxInstances == 2       \* instance ids the registry may hand out in one entry
MaxMemories == 3        \* memory ids the registry may hand out in one entry
FewMemories == 1        \* the same, where memory ids are not what is examined
MemSize == 11           \* bytes of the caller's linear memory
PageBytes == 2          \* bytes of one (scaled down) page of a sandboxed memory
MaxBlocks == 1          \* blocks the heap can hold at once

\* ------------------------------------------------------- program constants
MAX_POSSIBLE_ALLOCATION == 33554432

\* ------------------------------------------------------------------ Option
None == <<>>
Some(x) == <<x>>
IsSome(o) == o # <<>>
IsNone(o) == o = <<>>
Unwrap(o) == o[1]

\* --------------------------------------------------------- status codes
\* sp_sandbox::env, kept symbolic: the vocabulary of spec section 6.
ERR_OK == "ERR_OK"
ERR_MODULE == "ERR_MODULE"
ERR_EXECUTION == "ERR_EXECUTION"
ERR_OUT_OF_BOUNDS == "ERR_OUT_OF_BOUNDS"
ERROR_GLOBALS_OK == "ERROR_GLOBALS_OK"
ERROR_GLOBALS_NOT_FOUND == "ERROR_GLOBALS_NOT_FOUND"
ERROR_GLOBALS_OTHER == "ERROR_GLOBALS_OTHER"
NoCode == "-"

\* Panic payloads; NoPanic means no unwinding is in progress.
NoPanic == "none"
PanicAllocatorTaken == "allocator is not empty when calling a function in wasm; qed"
PanicStoreBorrowed == "sandbox store is only empty when temporarily borrowed"
PanicAllocator == "allocator panicked"
PanicGuest == "guest panicked"

\* The messages of the hard errors host.rs makes itself.
ErrNoTable == "Runtime doesn't have a table; sandbox is unavailable"
ErrThunkOutOfBounds == "dispatch_thunk_id is out of bounds"
ErrThunkNotFuncref == "dispatch_thunk_idx should be a funcref"
ErrThunkNull == "dispatch_thunk_idx should point to actual func"
ErrDecodeArgs == "Can't decode serialized arguments for the invocation"
ErrBufferTooSmall == "Return value buffer is too small"
ErrWriteReturn == "can't write return value"
\* The registry's own error (sandbox::Store), turned into a string.
ErrNotFound == "not found"
ErrNewMemory == "cannot create the memory"
ErrGrow == "cannot grow the memory"

VARIABLES
    sandbox_store,   \* HostState.sandbox_store: Option<Store>
    allocator,       \* HostState.allocator: Option<FreeingBumpHeapAllocator>
    panic_message,   \* HostState.panic_message: Option<String>
    memory,          \* StoreData.memory: the caller's linear memory (bytes)
    table,           \* StoreData.table: Option<Table>
    stack,           \* host calls in their guest phase, and dispatch thunk calls
    unwinding,       \* payload of the panic being unwound, or NoPanic
    ret              \* what the last finished host call handed to its caller

vars == <<sandbox_store, allocator, panic_message, memory, table, stack, unwinding, ret>>

\* ---------------------------------------------------------------- inputs
Sizes == {1, MAX_POSSIBLE_ALLOCATION + 1}
Ptrs == 1..MaxBlocks
Funcs == {"f", "g"}
\* The function table of the runtime module: two functions, a null funcref and
\* an entry that is no funcref at all. Index Len(TheTable) is out of bounds.
TheTable == <<"f", "g", "null", "extern">>
TableIdx == 0..Len(TheTable)
Tags == {0, 1}
Wasm == {"w1"}
Names == {"a", "b", "c"}
GlobalVals == {0, 1}

\* ------------------------------------------------------- Memory Access Layer
InBounds(address, len, size) == address + len <= size

\* util::read_memory: the bytes of [address, address+len), or an error.
ReadMemory(mem, address, len) ==
    IF InBounds(address, len, Len(mem))
    THEN [ok |-> TRUE, data |-> SubSeq(mem, address + 1, address + len)]
    ELSE [ok |-> FALSE, data |-> <<>>]

\* util::write_memory_from: mem with data copied to [address, address+len), or an error.
WriteMemory(mem, address, data) ==
    IF InBounds(address, Len(data), Len(mem))
    THEN [ok |-> TRUE,
          mem |-> [i \in 1..Len(mem) |->
                     IF i > address /\ i <= address + Len(data)
                     THEN data[i - address] ELSE mem[i]]]
    ELSE [ok |-> FALSE, mem |-> mem]

\* ------------------------------------------------------------ the allocator
\* FreeingBumpHeapAllocator, by its contract: the set of live blocks.
NewAllocator == [live |-> {}]

\* allocate: fault is the allocator panicking partway through.
Allocate(a, size, fault) ==
    IF fault THEN [panic |-> TRUE, ok |-> FALSE, ptr |-> 0, a |-> a]
    ELSE IF size > MAX_POSSIBLE_ALLOCATION \/ Ptrs \ a.live = {}
    THEN [panic |-> FALSE, ok |-> FALSE, ptr |-> 0, a |-> a]
    ELSE LET p == CHOOSE q \in Ptrs \ a.live : \A r \in Ptrs \ a.live : q <= r
         IN [panic |-> FALSE, ok |-> TRUE, ptr |-> p, a |-> [live |-> a.live \cup {p}]]

Deallocate(a, ptr, fault) ==
    IF fault THEN [panic |-> TRUE, ok |-> FALSE, ptr |-> 0, a |-> a]
    ELSE IF ptr \notin a.live
    THEN [panic |-> FALSE, ok |-> FALSE, ptr |-> 0, a |-> a]
    ELSE [panic |-> FALSE, ok |-> TRUE, ptr |-> 0, a |-> [live |-> a.live \ {ptr}]]

Stats(a) == Cardinality(a.live)

\* ------------------------------------------------------------ return values
\* kind is "Ok", "Err" or "Panic"; code is the status code of an Ok result or
\* the message of an Err; val is the id, pointer or number of an Ok result.
\* `data` holds the bytes a call copied into the buffer it was given.
Ret(op, kind, code, val) ==
    [op |-> op, kind |-> kind, code |-> code, val |-> val, data |-> <<>>]
NoRet == Ret("-", "-", NoCode, 0)

Running == unwinding = NoPanic
Depth == Len(stack)
Top == stack[Len(stack)]

\* sandbox::Store::new: no instance, no memory, both id counters at zero.
EmptyStore == [instances |-> <<>>, memories |-> <<>>, next_instance |-> 0, next_memory |-> 0]

\* ------------------------------------------------------------------- Init
\* HostState::new: a fresh registry, the allocator handed in, no panic message.
Init ==
    /\ sandbox_store = Some(EmptyStore)
    /\ allocator = Some(NewAllocator)
    /\ panic_message = None
    /\ memory = [i \in 1..MemSize |-> 0]
    /\ table \in {None, Some(TheTable)}
    /\ stack = <<>>
    /\ unwinding = NoPanic
    /\ ret = NoRet

\* ------------------------------------------------- allocate / deallocate
\* allocate_memory returning early on an allocator error, before line 147.
AllocateMemoryEarlyReturn(slot, size, fault) ==
    IF IsNone(slot)
    THEN [allocator |-> None, kind |-> "Panic", val |-> 0, panic |-> PanicAllocatorTaken]
    ELSE LET res == Allocate(Unwrap(slot), size, fault) IN
         IF res.panic
         THEN [allocator |-> None, kind |-> "Panic", val |-> 0, panic |-> PanicAllocator]
         ELSE IF ~res.ok
         THEN [allocator |-> None, kind |-> "Err", val |-> 0, panic |-> NoPanic]
         ELSE [allocator |-> Some(res.a), kind |-> "Ok", val |-> res.ptr, panic |-> NoPanic]

\* The effect of allocate_memory on the allocator slot and its result, given the
\* slot's content on entry.
AllocateMemoryEffect(slot, size, fault) ==
    IF IsNone(slot)
    THEN [allocator |-> None, kind |-> "Panic", val |-> 0, panic |-> PanicAllocatorTaken]
    ELSE LET res == Allocate(Unwrap(slot), size, fault) IN
         IF res.panic
         THEN \* unwinds from line 143: the local `allocator` is dropped
              [allocator |-> None, kind |-> "Panic", val |-> 0, panic |-> PanicAllocator]
         ELSE [allocator |-> Some(res.a), kind |-> IF res.ok THEN "Ok" ELSE "Err",
               val |-> res.ptr, panic |-> NoPanic]

DeallocateMemoryEffect(slot, ptr, fault) ==
    IF IsNone(slot)
    THEN [allocator |-> None, kind |-> "Panic", val |-> 0, panic |-> PanicAllocatorTaken]
    ELSE LET res == Deallocate(Unwrap(slot), ptr, fault) IN
         IF res.panic
         THEN \* unwinds from line 161: the local `allocator` is dropped
              [allocator |-> None, kind |-> "Panic", val |-> 0, panic |-> PanicAllocator]
         ELSE [allocator |-> Some(res.a), kind |-> IF res.ok THEN "Ok" ELSE "Err",
               val |-> 0, panic |-> NoPanic]

allocate_memory(size, fault) ==
    /\ Running
    /\ LET e == AllocateMemoryEffect(allocator, size, fault) IN
        /\ allocator' = e.allocator
        /\ unwinding' = e.panic
        /\ ret' = Ret("allocate_memory", e.kind, NoCode, e.val)
    /\ UNCHANGED <<sandbox_store, panic_message, memory, table, stack>>

deallocate_memory(ptr, fault) ==
    /\ Running
    /\ LET e == DeallocateMemoryEffect(allocator, ptr, fault) IN
        /\ allocator' = e.allocator
        /\ unwinding' = e.panic
        /\ ret' = Ret("deallocate_memory", e.kind, NoCode, e.val)
    /\ UNCHANGED <<sandbox_store, panic_message, memory, table, stack>>

\* HostState::allocation_stats: read by the entry point, outside any host call.
allocation_stats ==
    /\ Running /\ stack = <<>>
    /\ IF IsNone(allocator)
       THEN /\ unwinding' = PanicAllocatorTaken
            /\ ret' = Ret("allocation_stats", "Panic", NoCode, 0)
       ELSE /\ unwinding' = NoPanic
            /\ ret' = Ret("allocation_stats", "Ok", NoCode, Stats(Unwrap(allocator)))
    /\ UNCHANGED <<sandbox_store, allocator, panic_message, memory, table, stack>>

\* ------------------------------------------------- read_memory / write_memory
read_memory_into(address, len) ==
    /\ Running
    /\ LET r == ReadMemory(memory, address, len) IN
        ret' = [Ret("read_memory_into", IF r.ok THEN "Ok" ELSE "Err", NoCode, 0)
                  EXCEPT !.data = r.data]
    /\ UNCHANGED <<sandbox_store, allocator, panic_message, memory, table, stack, unwinding>>

\* write_memory answering Ok whatever the copy did.
WriteMemoryIgnoresError(address, data) ==
    /\ Running
    /\ memory' = WriteMemory(memory, address, data).mem
    /\ ret' = Ret("write_memory", "Ok", NoCode, 0)
    /\ UNCHANGED <<sandbox_store, allocator, panic_message, table, stack, unwinding>>

write_memory(address, data) ==
    /\ Running
    /\ LET w == WriteMemory(memory, address, data) IN
        /\ memory' = w.mem
        /\ ret' = Ret("write_memory", IF w.ok THEN "Ok" ELSE "Err", NoCode, 0)
    /\ UNCHANGED <<sandbox_store, allocator, panic_message, table, stack, unwinding>>

\* ------------------------------------------------------------ panic message
register_panic_error_message(message) ==
    /\ Running
    /\ panic_message' = Some(message)
    /\ UNCHANGED <<sandbox_store, allocator, memory, table, stack, unwinding, ret>>

\* HostState::take_panic_message: called by the entry point.
\* take_panic_message handing out a copy of the message and keeping it.
TakePanicMessageKeepsSlot ==
    /\ stack = <<>>
    /\ ret' = IF IsSome(panic_message)
              THEN Ret("take_panic_message", "Some", Unwrap(panic_message), 0)
              ELSE Ret("take_panic_message", "None", NoCode, 0)
    /\ UNCHANGED <<sandbox_store, allocator, panic_message, memory, table, stack, unwinding>>

\* The Option<String> it returns: kind Some with the message as code, or None.
take_panic_message ==
    /\ stack = <<>>
    /\ panic_message' = None
    /\ ret' = IF IsSome(panic_message)
              THEN Ret("take_panic_message", "Some", Unwrap(panic_message), 0)
              ELSE Ret("take_panic_message", "None", NoCode, 0)
    /\ UNCHANGED <<sandbox_store, allocator, memory, table, stack, unwinding>>

\* ------------------------------------------------------ the sandbox registry
\* sandbox::Store: the live instances and memories, each with the id it was given,
\* and the next id of each kind.
LiveIds(entries) == {entries[i].id : i \in 1..Len(entries)}

\* The entry of the given id, if one is live.
Lookup(entries, id) ==
    LET hit == {i \in 1..Len(entries) : entries[i].id = id} IN
    IF hit = {} THEN None
    ELSE Some(entries[CHOOSE i \in hit : \A j \in hit : i <= j])

Remove(entries, id) == SelectSeq(entries, LAMBDA e : e.id # id)

Replace(entries, id, new) ==
    [i \in 1..Len(entries) |-> IF entries[i].id = id THEN new ELSE entries[i]]

\* The id a new entry gets: ids are handed out in order and never again.
NextMemoryId(store) == store.next_memory
NextInstanceId(store) == store.next_instance

\* Store::new_memory
NewMemory(store, initial, maximum) ==
    IF initial > maximum THEN [ok |-> FALSE, store |-> store, id |-> 0]
    ELSE LET id == NextMemoryId(store)
             m == [id |-> id, initial |-> initial, maximum |-> maximum, size |-> initial,
                   data |-> [i \in 1..(initial * PageBytes) |-> 0]]
         IN [ok |-> TRUE, id |-> id,
             store |-> [store EXCEPT !.memories = Append(@, m),
                                     !.next_memory = @ + 1]]

\* Store::memory_teardown / Store::instance_teardown
MemoryTeardown(store, id) ==
    IF IsNone(Lookup(store.memories, id)) THEN [ok |-> FALSE, store |-> store]
    ELSE [ok |-> TRUE, store |-> [store EXCEPT !.memories = Remove(@, id)]]

InstanceTeardown(store, id) ==
    IF IsNone(Lookup(store.instances, id)) THEN [ok |-> FALSE, store |-> store]
    ELSE [ok |-> TRUE, store |-> [store EXCEPT !.instances = Remove(@, id)]]

\* SandboxInstance::register
Register(store, dispatch_thunk, wasm) ==
    LET id == NextInstanceId(store)
        inst == [id |-> id, dispatch_thunk |-> dispatch_thunk, wasm |-> wasm]
    IN [id |-> id,
        store |-> [store EXCEPT !.instances = Append(@, inst), !.next_instance = @ + 1]]

\* The result of a sandbox operation: the registry slot and caller memory after it,
\* and what it hands back (kind is "Ok", "Err" or "Panic").
Effect(slot, mem, kind, code, val, panic) ==
    [store |-> slot, mem |-> mem, kind |-> kind, code |-> code, val |-> val, panic |-> panic]

\* sandbox_store() / sandbox_store_mut() on an empty slot.
Borrowed(slot, mem) == Effect(slot, mem, "Panic", NoCode, 0, PanicStoreBorrowed)

Apply(op, e) ==
    /\ ret' = Ret(op, e.kind, e.code, e.val)
    /\ sandbox_store' = e.store
    /\ memory' = e.mem
    /\ unwinding' = e.panic
    /\ UNCHANGED <<allocator, panic_message, table, stack>>

SupervisorRunning == Running /\ (IF stack = <<>> THEN TRUE ELSE Top.op = "thunk")

\* ---------------------------------------------- memory_new / memory_teardown
MemoryNewEffect(slot, mem, initial, maximum) ==
    IF IsNone(slot) THEN Borrowed(slot, mem)
    ELSE LET r == NewMemory(Unwrap(slot), initial, maximum) IN
         IF r.ok THEN Effect(Some(r.store), mem, "Ok", NoCode, r.id, NoPanic)
         ELSE Effect(slot, mem, "Err", ErrNewMemory, 0, NoPanic)

memory_new(initial, maximum) ==
    /\ SupervisorRunning
    /\ Apply("memory_new", MemoryNewEffect(sandbox_store, memory, initial, maximum))

MemoryTeardownEffect(slot, mem, memory_id) ==
    IF IsNone(slot) THEN Borrowed(slot, mem)
    ELSE LET r == MemoryTeardown(Unwrap(slot), memory_id) IN
         IF r.ok THEN Effect(Some(r.store), mem, "Ok", NoCode, 0, NoPanic)
         ELSE Effect(slot, mem, "Err", ErrNotFound, 0, NoPanic)

memory_teardown(memory_id) ==
    /\ SupervisorRunning
    /\ Apply("memory_teardown", MemoryTeardownEffect(sandbox_store, memory, memory_id))

InstanceTeardownEffect(slot, mem, instance_id) ==
    IF IsNone(slot) THEN Borrowed(slot, mem)
    ELSE LET r == InstanceTeardown(Unwrap(slot), instance_id) IN
         IF r.ok THEN Effect(Some(r.store), mem, "Ok", NoCode, 0, NoPanic)
         ELSE Effect(slot, mem, "Err", ErrNotFound, 0, NoPanic)

instance_teardown(instance_id) ==
    /\ SupervisorRunning
    /\ Apply("instance_teardown", InstanceTeardownEffect(sandbox_store, memory, instance_id))

\* ------------------------------------------------- memory_get / memory_set
\* memory_get answering a memory id with no live memory with the out-of-bounds
\* code instead of passing the registry's error on.
MemoryGetDeadIdIsStatusCode(slot, mem, memory_id, offset, buf_ptr, buf_len) ==
    IF IsNone(slot) THEN Borrowed(slot, mem)
    ELSE LET m == Lookup(Unwrap(slot).memories, memory_id) IN
         IF IsNone(m) THEN Effect(slot, mem, "Ok", ERR_OUT_OF_BOUNDS, 0, NoPanic)
         ELSE LET buffer == ReadMemory(Unwrap(m).data, offset, buf_len) IN
              IF ~buffer.ok THEN Effect(slot, mem, "Ok", ERR_OUT_OF_BOUNDS, 0, NoPanic)
              ELSE LET w == WriteMemory(mem, buf_ptr, buffer.data) IN
                   IF ~w.ok THEN Effect(slot, mem, "Ok", ERR_OUT_OF_BOUNDS, 0, NoPanic)
                   ELSE Effect(slot, w.mem, "Ok", ERR_OK, 0, NoPanic)

\* memory_get passing on the failure of the write to the caller's memory (`?`)
\* instead of answering with the out-of-bounds code.
MemoryGetWriteFailureIsError(slot, mem, memory_id, offset, buf_ptr, buf_len) ==
    IF IsNone(slot) THEN Borrowed(slot, mem)
    ELSE LET m == Lookup(Unwrap(slot).memories, memory_id) IN
         IF IsNone(m) THEN Effect(slot, mem, "Err", ErrNotFound, 0, NoPanic)
         ELSE LET buffer == ReadMemory(Unwrap(m).data, offset, buf_len) IN
              IF ~buffer.ok THEN Effect(slot, mem, "Ok", ERR_OUT_OF_BOUNDS, 0, NoPanic)
              ELSE LET w == WriteMemory(mem, buf_ptr, buffer.data) IN
                   IF ~w.ok THEN Effect(slot, mem, "Err", "write failed", 0, NoPanic)
                   ELSE Effect(slot, w.mem, "Ok", ERR_OK, 0, NoPanic)

\* Memory::read / Memory::write_from of a sandboxed memory: bounds-checked copies.
MemoryGetEffect(slot, mem, memory_id, offset, buf_ptr, buf_len) ==
    IF IsNone(slot) THEN Borrowed(slot, mem)
    ELSE LET m == Lookup(Unwrap(slot).memories, memory_id) IN
         IF IsNone(m) THEN Effect(slot, mem, "Err", ErrNotFound, 0, NoPanic)
         ELSE LET buffer == ReadMemory(Unwrap(m).data, offset, buf_len) IN
              IF ~buffer.ok THEN Effect(slot, mem, "Ok", ERR_OUT_OF_BOUNDS, 0, NoPanic)
              ELSE LET w == WriteMemory(mem, buf_ptr, buffer.data) IN
                   IF ~w.ok THEN Effect(slot, mem, "Ok", ERR_OUT_OF_BOUNDS, 0, NoPanic)
                   ELSE Effect(slot, w.mem, "Ok", ERR_OK, 0, NoPanic)

memory_get(memory_id, offset, buf_ptr, buf_len) ==
    /\ SupervisorRunning
    /\ Apply("memory_get",
             MemoryGetEffect(sandbox_store, memory, memory_id, offset, buf_ptr, buf_len))

MemorySetEffect(slot, mem, memory_id, offset, val_ptr, val_len) ==
    IF IsNone(slot) THEN Borrowed(slot, mem)
    ELSE LET m == Lookup(Unwrap(slot).memories, memory_id) IN
         IF IsNone(m) THEN Effect(slot, mem, "Err", ErrNotFound, 0, NoPanic)
         ELSE LET buffer == ReadMemory(mem, val_ptr, val_len) IN
              IF ~buffer.ok THEN Effect(slot, mem, "Ok", ERR_OUT_OF_BOUNDS, 0, NoPanic)
              ELSE LET w == WriteMemory(Unwrap(m).data, offset, buffer.data) IN
                   IF ~w.ok THEN Effect(slot, mem, "Ok", ERR_OUT_OF_BOUNDS, 0, NoPanic)
                   ELSE Effect(
                          Some([Unwrap(slot) EXCEPT !.memories =
                                  Replace(@, memory_id, [Unwrap(m) EXCEPT !.data = w.mem])]),
                          mem, "Ok", ERR_OK, 0, NoPanic)

memory_set(memory_id, offset, val_ptr, val_len) ==
    /\ SupervisorRunning
    /\ Apply("memory_set",
             MemorySetEffect(sandbox_store, memory, memory_id, offset, val_ptr, val_len))

\* ---------------------------------------------------------------- globals
\* The exported globals of a module: "i64" is a mutable i64 global, "other" one
\* that set_global_i64 cannot set (wrong type or immutable), "absent" no global.
ModuleGlobals(wasm) ==
    [n \in Names |-> IF n = "a" THEN "i64" ELSE IF n = "b" THEN "other" ELSE "absent"]

\* SandboxInstance::set_global_i64: Ok(None), Ok(Some(())) or Err.
InstanceSetGlobal(inst, name) ==
    LET g == ModuleGlobals(inst.wasm)[name] IN
    IF g = "absent" THEN "OkNone" ELSE IF g = "i64" THEN "OkSome" ELSE "Err"

\* set_global_i64 passing on the instance's error (`?`).
SetGlobalCodePropagatesError(result) ==
    IF result = "OkNone" THEN [kind |-> "Ok", code |-> ERROR_GLOBALS_NOT_FOUND]
    ELSE IF result = "OkSome" THEN [kind |-> "Ok", code |-> ERROR_GLOBALS_OK]
    ELSE [kind |-> "Err", code |-> "cannot set the global"]

\* The status code set_global_i64 makes of the instance's answer.
SetGlobalCode(result) ==
    IF result = "OkNone" THEN [kind |-> "Ok", code |-> ERROR_GLOBALS_NOT_FOUND]
    ELSE IF result = "OkSome" THEN [kind |-> "Ok", code |-> ERROR_GLOBALS_OK]
    ELSE [kind |-> "Ok", code |-> ERROR_GLOBALS_OTHER]

SetGlobalI64Effect(slot, mem, instance_idx, name, value) ==
    IF IsNone(slot) THEN Borrowed(slot, mem)
    ELSE LET i == Lookup(Unwrap(slot).instances, instance_idx) IN
         IF IsNone(i) THEN Effect(slot, mem, "Err", ErrNotFound, 0, NoPanic)
         ELSE LET c == SetGlobalCode(InstanceSetGlobal(Unwrap(i), name))
              IN Effect(slot, mem, c.kind, c.code, 0, NoPanic)

set_global_i64(instance_idx, name, value) ==
    /\ SupervisorRunning
    /\ Apply("set_global_i64",
             SetGlobalI64Effect(sandbox_store, memory, instance_idx, name, value))

\* get_global_val / get_global_i64: Ok(Some(..)) or Ok(None) of a live instance.
GetGlobalEffect(slot, mem, instance_idx, name, only_i64) ==
    IF IsNone(slot) THEN Borrowed(slot, mem)
    ELSE LET i == Lookup(Unwrap(slot).instances, instance_idx) IN
         IF IsNone(i) THEN Effect(slot, mem, "Err", ErrNotFound, 0, NoPanic)
         ELSE LET g == ModuleGlobals(Unwrap(i).wasm)[name]
                  found == IF only_i64 THEN g = "i64" ELSE g # "absent"
              IN Effect(slot, mem, "Ok", IF found THEN "Some" ELSE "None", 0, NoPanic)

get_global_val(instance_idx, name) ==
    /\ SupervisorRunning
    /\ Apply("get_global_val", GetGlobalEffect(sandbox_store, memory, instance_idx, name, FALSE))

get_global_i64(instance_idx, name) ==
    /\ SupervisorRunning
    /\ Apply("get_global_i64", GetGlobalEffect(sandbox_store, memory, instance_idx, name, TRUE))

\* get_instance_ptr: the host address of a live instance (here: its id).
GetInstancePtrEffect(slot, mem, instance_id) ==
    IF IsNone(slot) THEN Borrowed(slot, mem)
    ELSE IF IsNone(Lookup(Unwrap(slot).instances, instance_id))
    THEN Effect(slot, mem, "Err", ErrNotFound, 0, NoPanic)
    ELSE Effect(slot, mem, "Ok", NoCode, instance_id, NoPanic)

get_instance_ptr(instance_id) ==
    /\ SupervisorRunning
    /\ Apply("get_instance_ptr", GetInstancePtrEffect(sandbox_store, memory, instance_id))

\* ------------------------------------- memory_size / memory_grow / get_buff
MemorySizeEffect(slot, mem, memory_id) ==
    IF IsNone(slot) THEN Borrowed(slot, mem)
    ELSE LET m == Lookup(Unwrap(slot).memories, memory_id) IN
         IF IsNone(m) THEN Effect(slot, mem, "Err", ErrNotFound, 0, NoPanic)
         ELSE Effect(slot, mem, "Ok", NoCode, Unwrap(m).size, NoPanic)

memory_size(memory_id) ==
    /\ SupervisorRunning
    /\ Apply("memory_size", MemorySizeEffect(sandbox_store, memory, memory_id))

\* Memory::memory_grow: the pages before the growth, or an error above the maximum.
Grow(m, pages_num) ==
    IF m.size + pages_num > m.maximum THEN [ok |-> FALSE, m |-> m]
    ELSE [ok |-> TRUE,
          m |-> [m EXCEPT !.size = @ + pages_num,
                          !.data = @ \o [i \in 1..(pages_num * PageBytes) |-> 0]]]

\* memory_grow answering a refused growth with the unchanged size instead of
\* passing the error on.
MemoryGrowSwallowsError(slot, mem, memory_id, pages_num) ==
    IF IsNone(slot) THEN Borrowed(slot, mem)
    ELSE LET m == Lookup(Unwrap(slot).memories, memory_id) IN
         IF IsNone(m) THEN Effect(slot, mem, "Err", ErrNotFound, 0, NoPanic)
         ELSE LET g == Grow(Unwrap(m), pages_num) IN
              Effect(Some([Unwrap(slot) EXCEPT !.memories = Replace(@, memory_id, g.m)]),
                     mem, "Ok", NoCode, Unwrap(m).size, NoPanic)

MemoryGrowEffect(slot, mem, memory_id, pages_num) ==
    IF IsNone(slot) THEN Borrowed(slot, mem)
    ELSE LET m == Lookup(Unwrap(slot).memories, memory_id) IN
         IF IsNone(m) THEN Effect(slot, mem, "Err", ErrNotFound, 0, NoPanic)
         ELSE LET g == Grow(Unwrap(m), pages_num) IN
              IF ~g.ok THEN Effect(slot, mem, "Err", ErrGrow, 0, NoPanic)
              ELSE Effect(Some([Unwrap(slot) EXCEPT !.memories = Replace(@, memory_id, g.m)]),
                          mem, "Ok", NoCode, Unwrap(m).size, NoPanic)

memory_grow(memory_id, pages_num) ==
    /\ SupervisorRunning
    /\ Apply("memory_grow", MemoryGrowEffect(sandbox_store, memory, memory_id, pages_num))

\* get_buff: the host address of a live memory's buffer (here: its id).
GetBuffEffect(slot, mem, memory_id) ==
    IF IsNone(slot) THEN Borrowed(slot, mem)
    ELSE IF IsNone(Lookup(Unwrap(slot).memories, memory_id))
    THEN Effect(slot, mem, "Err", ErrNotFound, 0, NoPanic)
    ELSE Effect(slot, mem, "Ok", NoCode, memory_id, NoPanic)

get_buff(memory_id) ==
    /\ SupervisorRunning
    /\ Apply("get_buff", GetBuffEffect(sandbox_store, memory, memory_id))

\* ------------------------------------------------------------------ frames
Frame(op, dispatch_thunk, state, store, call) ==
    [op |-> op, dispatch_thunk |-> dispatch_thunk, state |-> state, store |-> store,
     call |-> call]

Push(f) == stack' = Append(stack, f)
Pop == stack' = SubSeq(stack, 1, Len(stack) - 1)

\* ------------------------------------------------------------- wire format
\* SCALE encoding of sp_wasm_interface::Value and ReturnValue: a variant index,
\* then the payload little-endian (4 bytes for I32, 8 for I64).
I32(v) == [ty |-> "I32", v |-> v]
I64(v) == [ty |-> "I64", v |-> v]
Width(ty) == IF ty = "I32" THEN 4 ELSE 8
RECURSIVE LittleEndian(_, _)
LittleEndian(v, n) == IF n = 0 THEN <<>> ELSE <<v % 256>> \o LittleEndian(v \div 256, n - 1)
EncodeValue(val) == <<IF val.ty = "I32" THEN 0 ELSE 1>> \o LittleEndian(val.v, Width(val.ty))
\* ReturnValue::Value(val).encode()
EncodeReturnValue(val) == <<1>> \o EncodeValue(val)

FromLittleEndian(bytes) ==
    LET RECURSIVE go(_)
        go(i) == IF i > Len(bytes) THEN 0 ELSE bytes[i] + 256 * go(i + 1)
    IN go(1)

\* Vec::<Value>::decode: a compact length (one byte, n * 4), then n values.
\* Trailing input is left unread.
DecodeArgs(bytes) ==
    LET RECURSIVE values(_, _)
        values(n, at) ==
            IF n = 0 THEN [ok |-> TRUE, args |-> <<>>]
            ELSE IF at > Len(bytes) \/ bytes[at] \notin {0, 1}
            THEN [ok |-> FALSE, args |-> <<>>]
            ELSE LET ty == IF bytes[at] = 0 THEN "I32" ELSE "I64"
                     w == Width(ty)
                 IN IF at + w > Len(bytes) THEN [ok |-> FALSE, args |-> <<>>]
                    ELSE LET rest == values(n - 1, at + w + 1) IN
                         IF ~rest.ok THEN rest
                         ELSE [ok |-> TRUE,
                               args |-> <<[ty |-> ty,
                                           v |-> FromLittleEndian(SubSeq(bytes, at + 1, at + w))]>>
                                        \o rest.args]
    IN IF bytes = <<>> \/ bytes[1] % 4 # 0 THEN [ok |-> FALSE, args |-> <<>>]
       ELSE values(bytes[1] \div 4, 2)

EncodedArgs == {<<0>>, <<4, 0, 5, 0, 0, 0>>, <<4, 0>>}
Values == {I32(7), I64(9)}

\* ------------------------------------------------------------------ invoke
ModuleExports(wasm) == {"call"}
ExportNames == {"call", "missing"}

\* What the guest phase of an invoke or an instantiation ends with.
InvokeResults ==
    {[tag |-> "OkNone", val |-> I32(0)], [tag |-> "Err", val |-> I32(0)],
     [tag |-> "Panic", val |-> I32(0)]}
    \cup {[tag |-> "OkSome", val |-> v] : v \in Values}

\* invoke fetching the instance before it decodes the arguments.
InvokeEntryLooksUpFirst(slot, instance_id, export_name, args) ==
    IF IsNone(slot)
    THEN [kind |-> "Panic", code |-> NoCode, panic |-> PanicStoreBorrowed, dispatch_thunk |-> "-"]
    ELSE LET i == Lookup(Unwrap(slot).instances, instance_id) IN
         IF IsNone(i)
         THEN [kind |-> "Err", code |-> ErrNotFound, panic |-> NoPanic, dispatch_thunk |-> "-"]
         ELSE IF ~DecodeArgs(args).ok
         THEN [kind |-> "Err", code |-> ErrDecodeArgs, panic |-> NoPanic, dispatch_thunk |-> "-"]
         ELSE IF export_name \notin ModuleExports(Unwrap(i).wasm)
         THEN [kind |-> "Ok", code |-> ERR_EXECUTION, panic |-> NoPanic, dispatch_thunk |-> "-"]
         ELSE [kind |-> "Run", code |-> NoCode, panic |-> NoPanic,
               dispatch_thunk |-> Unwrap(i).dispatch_thunk]

\* invoke binding the bridge to the dispatch thunk of the oldest live instance
\* instead of the one registered with `instance_id`.
InvokeEntryOldestThunk(slot, instance_id, export_name, args) ==
    IF ~DecodeArgs(args).ok
    THEN [kind |-> "Err", code |-> ErrDecodeArgs, panic |-> NoPanic, dispatch_thunk |-> "-"]
    ELSE IF IsNone(slot)
    THEN [kind |-> "Panic", code |-> NoCode, panic |-> PanicStoreBorrowed, dispatch_thunk |-> "-"]
    ELSE LET i == Lookup(Unwrap(slot).instances, instance_id) IN
         IF IsNone(i)
         THEN [kind |-> "Err", code |-> ErrNotFound, panic |-> NoPanic, dispatch_thunk |-> "-"]
         ELSE IF export_name \notin ModuleExports(Unwrap(i).wasm)
         THEN [kind |-> "Ok", code |-> ERR_EXECUTION, panic |-> NoPanic, dispatch_thunk |-> "-"]
         ELSE [kind |-> "Run", code |-> NoCode, panic |-> NoPanic,
               dispatch_thunk |-> Unwrap(slot).instances[1].dispatch_thunk]

\* invoke up to the call of the export (lines 245-254): an early result, or
\* "Run" with the dispatch thunk of the instance.
InvokeEntry(slot, instance_id, export_name, args) ==
    IF ~DecodeArgs(args).ok
    THEN [kind |-> "Err", code |-> ErrDecodeArgs, panic |-> NoPanic, dispatch_thunk |-> "-"]
    ELSE IF IsNone(slot)
    THEN [kind |-> "Panic", code |-> NoCode, panic |-> PanicStoreBorrowed, dispatch_thunk |-> "-"]
    ELSE LET i == Lookup(Unwrap(slot).instances, instance_id) IN
         IF IsNone(i)
         THEN [kind |-> "Err", code |-> ErrNotFound, panic |-> NoPanic, dispatch_thunk |-> "-"]
         ELSE IF export_name \notin ModuleExports(Unwrap(i).wasm)
         THEN \* instance.invoke fails before any guest code runs
              [kind |-> "Ok", code |-> ERR_EXECUTION, panic |-> NoPanic, dispatch_thunk |-> "-"]
         ELSE [kind |-> "Run", code |-> NoCode, panic |-> NoPanic,
               dispatch_thunk |-> Unwrap(i).dispatch_thunk]

\* invoke moving the registry out of its slot for the guest's run, as
\* instance_new does.
InvokeTakesRegistry(instance_id, export_name, args, return_val, return_val_len, state) ==
    /\ SupervisorRunning
    /\ LET e == InvokeEntry(sandbox_store, instance_id, export_name, args) IN
       IF e.kind = "Run"
       THEN /\ Depth < MaxDepth
            /\ Push(Frame("invoke", e.dispatch_thunk, state, sandbox_store,
                          [instance_id |-> instance_id, return_val |-> return_val,
                           return_val_len |-> return_val_len]))
            /\ sandbox_store' = None
            /\ UNCHANGED <<unwinding, ret>>
       ELSE /\ unwinding' = e.panic
            /\ ret' = Ret("invoke", e.kind, e.code, 0)
            /\ UNCHANGED <<stack, sandbox_store>>
    /\ UNCHANGED <<allocator, panic_message, memory, table>>

invoke(instance_id, export_name, args, return_val, return_val_len, state) ==
    /\ SupervisorRunning
    /\ LET e == InvokeEntry(sandbox_store, instance_id, export_name, args) IN
       IF e.kind = "Run"
       THEN /\ Depth < MaxDepth
            /\ Push(Frame("invoke", e.dispatch_thunk, state, None,
                          [instance_id |-> instance_id, return_val |-> return_val,
                           return_val_len |-> return_val_len]))
            /\ UNCHANGED <<unwinding, ret>>
       ELSE /\ unwinding' = e.panic
            /\ ret' = Ret("invoke", e.kind, e.code, 0)
            /\ UNCHANGED stack
    /\ UNCHANGED <<sandbox_store, allocator, panic_message, memory, table>>

\* The match on the result with the length check of line 267 left out.
InvokeResultNoLengthCheck(mem, result, return_val, return_val_len) ==
    IF result.tag = "OkNone" THEN [mem |-> mem, kind |-> "Ok", code |-> ERR_OK]
    ELSE IF result.tag = "OkSome"
    THEN LET w == WriteMemory(mem, return_val, EncodeReturnValue(result.val)) IN
         IF ~w.ok THEN [mem |-> mem, kind |-> "Err", code |-> ErrWriteReturn]
         ELSE [mem |-> w.mem, kind |-> "Ok", code |-> ERR_OK]
    ELSE [mem |-> mem, kind |-> "Ok", code |-> ERR_EXECUTION]

\* The match on the result with the guest's error passed on (`?`) instead of
\* being made a status code.
InvokeResultPropagatesError(mem, result, return_val, return_val_len) ==
    IF result.tag = "OkNone" THEN [mem |-> mem, kind |-> "Ok", code |-> ERR_OK]
    ELSE IF result.tag = "OkSome"
    THEN LET val == EncodeReturnValue(result.val) IN
         IF Len(val) > return_val_len
         THEN [mem |-> mem, kind |-> "Err", code |-> ErrBufferTooSmall]
         ELSE LET w == WriteMemory(mem, return_val, val) IN
              IF ~w.ok THEN [mem |-> mem, kind |-> "Err", code |-> ErrWriteReturn]
              ELSE [mem |-> w.mem, kind |-> "Ok", code |-> ERR_OK]
    ELSE [mem |-> mem, kind |-> "Err", code |-> "execution failed"]

\* The match on the result of instance.invoke (lines 262-276).
InvokeResult(mem, result, return_val, return_val_len) ==
    IF result.tag = "OkNone" THEN [mem |-> mem, kind |-> "Ok", code |-> ERR_OK]
    ELSE IF result.tag = "OkSome"
    THEN LET val == EncodeReturnValue(result.val) IN
         IF Len(val) > return_val_len
         THEN [mem |-> mem, kind |-> "Err", code |-> ErrBufferTooSmall]
         ELSE LET w == WriteMemory(mem, return_val, val) IN
              IF ~w.ok THEN [mem |-> mem, kind |-> "Err", code |-> ErrWriteReturn]
              ELSE [mem |-> w.mem, kind |-> "Ok", code |-> ERR_OK]
    ELSE [mem |-> mem, kind |-> "Ok", code |-> ERR_EXECUTION]

\* The export returns, traps or panics: invoke finishes.
invoke_return(result) ==
    /\ Running /\ Depth > 0 /\ Top.op = "invoke"
    /\ Pop
    /\ IF result.tag = "Panic"
       THEN /\ unwinding' = PanicGuest
            /\ ret' = Ret("invoke", "Panic", NoCode, 0)
            /\ UNCHANGED memory
       ELSE LET r == InvokeResult(memory, result, Top.call.return_val, Top.call.return_val_len)
            IN /\ memory' = r.mem
               /\ ret' = Ret("invoke", r.kind, r.code, 0)
               /\ UNCHANGED unwinding
    /\ UNCHANGED <<sandbox_store, allocator, panic_message, table>>

\* A panic raised below invoke unwinds through it: invoke holds nothing to restore.
invoke_unwind ==
    /\ ~Running /\ Depth > 0 /\ Top.op = "invoke"
    /\ Pop
    /\ ret' = Ret("invoke", "Panic", NoCode, 0)
    /\ UNCHANGED <<sandbox_store, allocator, panic_message, memory, table, unwinding>>

\* ------------------------------------------------------------ instance_new
\* Thunk resolution that takes whatever the table holds at the index, without
\* asking whether it is a function reference.
ResolveThunkUnchecked(tbl, dispatch_thunk_id) ==
    IF IsNone(tbl) THEN [ok |-> FALSE, func |-> "-", err |-> ErrNoTable]
    ELSE IF dispatch_thunk_id >= Len(Unwrap(tbl))
    THEN [ok |-> FALSE, func |-> "-", err |-> ErrThunkOutOfBounds]
    ELSE [ok |-> TRUE, func |-> Unwrap(tbl)[dispatch_thunk_id + 1], err |-> NoCode]

\* Lines 293-306: the dispatch thunk of the given table index.
ResolveThunk(tbl, dispatch_thunk_id) ==
    IF IsNone(tbl) THEN [ok |-> FALSE, func |-> "-", err |-> ErrNoTable]
    ELSE IF dispatch_thunk_id >= Len(Unwrap(tbl))
    THEN [ok |-> FALSE, func |-> "-", err |-> ErrThunkOutOfBounds]
    ELSE LET item == Unwrap(tbl)[dispatch_thunk_id + 1] IN
         IF item = "extern" THEN [ok |-> FALSE, func |-> "-", err |-> ErrThunkNotFuncref]
         ELSE IF item = "null" THEN [ok |-> FALSE, func |-> "-", err |-> ErrThunkNull]
         ELSE [ok |-> TRUE, func |-> item, err |-> NoCode]

EnvDefs == {"env", "malformed"}
\* GuestEnvironment::decode
DecodeEnv(store, raw_env_def) == raw_env_def # "malformed"

\* instance_new decoding the environment definition before it resolves the thunk.
InstanceNewDecodesFirst(slot, tbl, dispatch_thunk_id, raw_env_def) ==
    LET t == ResolveThunk(tbl, dispatch_thunk_id) IN
    IF IsNone(slot)
    THEN [kind |-> "Panic", code |-> NoCode, panic |-> PanicStoreBorrowed, dispatch_thunk |-> "-"]
    ELSE IF ~DecodeEnv(Unwrap(slot), raw_env_def)
    THEN [kind |-> "Ok", code |-> ERR_MODULE, panic |-> NoPanic, dispatch_thunk |-> "-"]
    ELSE IF ~t.ok
    THEN [kind |-> "Err", code |-> t.err, panic |-> NoPanic, dispatch_thunk |-> "-"]
    ELSE [kind |-> "Run", code |-> NoCode, panic |-> NoPanic, dispatch_thunk |-> t.func]

\* instance_new up to the take of the registry (lines 292-318).
InstanceNewEntry(slot, tbl, dispatch_thunk_id, raw_env_def) ==
    LET t == ResolveThunk(tbl, dispatch_thunk_id) IN
    IF ~t.ok
    THEN [kind |-> "Err", code |-> t.err, panic |-> NoPanic, dispatch_thunk |-> "-"]
    ELSE IF IsNone(slot)
    THEN [kind |-> "Panic", code |-> NoCode, panic |-> PanicStoreBorrowed, dispatch_thunk |-> "-"]
    ELSE IF ~DecodeEnv(Unwrap(slot), raw_env_def)
    THEN [kind |-> "Ok", code |-> ERR_MODULE, panic |-> NoPanic, dispatch_thunk |-> "-"]
    ELSE [kind |-> "Run", code |-> NoCode, panic |-> NoPanic, dispatch_thunk |-> t.func]

instance_new(dispatch_thunk_id, wasm, raw_env_def, state) ==
    /\ SupervisorRunning
    /\ LET e == InstanceNewEntry(sandbox_store, table, dispatch_thunk_id, raw_env_def) IN
       IF e.kind = "Run"
       THEN /\ Depth < MaxDepth
            /\ Push(Frame("instance_new", e.dispatch_thunk, state, sandbox_store,
                          [wasm |-> wasm, dispatch_thunk_id |-> dispatch_thunk_id]))
            /\ sandbox_store' = None
            /\ UNCHANGED <<unwinding, ret>>
       ELSE /\ unwinding' = e.panic
            /\ ret' = Ret("instance_new", e.kind, e.code, 0)
            /\ UNCHANGED <<stack, sandbox_store>>
    /\ UNCHANGED <<allocator, panic_message, memory, table>>

InstantiateResults == {"Ok", "StartTrapped", "ModuleError", "Panic"}

\* instance_new without its catch_unwind: a panic of store.instantiate unwinds
\* past line 334 and the taken registry is dropped.
InstanceNewNoCatch(store, result, payload, dispatch_thunk, wasm) ==
    IF result = "Panic"
    THEN Effect(None, <<>>, "Panic", NoCode, 0, payload)
    ELSE IF result = "Ok"
    THEN LET r == Register(Unwrap(store), dispatch_thunk, wasm) IN
         Effect(Some(r.store), <<>>, "Ok", NoCode, r.id, NoPanic)
    ELSE IF result = "StartTrapped"
    THEN Effect(store, <<>>, "Ok", ERR_EXECUTION, 0, NoPanic)
    ELSE Effect(store, <<>>, "Ok", ERR_MODULE, 0, NoPanic)

\* instance_new with every failed instantiation answered by the module-error code.
InstanceNewOneErrorCode(store, result, payload, dispatch_thunk, wasm) ==
    IF result = "Panic"
    THEN Effect(store, <<>>, "Panic", NoCode, 0, payload)
    ELSE IF result = "Ok"
    THEN LET r == Register(Unwrap(store), dispatch_thunk, wasm) IN
         Effect(Some(r.store), <<>>, "Ok", NoCode, r.id, NoPanic)
    ELSE Effect(store, <<>>, "Ok", ERR_MODULE, 0, NoPanic)

\* Lines 334-347: what instance_new leaves in the registry slot and hands back,
\* given the taken registry `store` and how store.instantiate ended; `payload`
\* is the panic caught by catch_unwind when it ended in a panic.
\* instance_new registering the instance also when its start function trapped.
InstanceNewRegistersTrapped(store, result, payload, dispatch_thunk, wasm) ==
    IF result = "Panic"
    THEN Effect(store, <<>>, "Panic", NoCode, 0, payload)
    ELSE IF result = "Ok"
    THEN LET r == Register(Unwrap(store), dispatch_thunk, wasm) IN
         Effect(Some(r.store), <<>>, "Ok", NoCode, r.id, NoPanic)
    ELSE IF result = "StartTrapped"
    THEN Effect(Some(Register(Unwrap(store), dispatch_thunk, wasm).store), <<>>,
                "Ok", ERR_EXECUTION, 0, NoPanic)
    ELSE Effect(store, <<>>, "Ok", ERR_MODULE, 0, NoPanic)

InstanceNewResult(store, result, payload, dispatch_thunk, wasm) ==
    IF result = "Panic"
    THEN Effect(store, <<>>, "Panic", NoCode, 0, payload)
    ELSE IF result = "Ok"
    THEN LET r == Register(Unwrap(store), dispatch_thunk, wasm) IN
         Effect(Some(r.store), <<>>, "Ok", NoCode, r.id, NoPanic)
    ELSE IF result = "StartTrapped"
    THEN Effect(store, <<>>, "Ok", ERR_EXECUTION, 0, NoPanic)
    ELSE Effect(store, <<>>, "Ok", ERR_MODULE, 0, NoPanic)

InstanceNewFinish(result, payload) ==
    /\ Depth > 0 /\ Top.op = "instance_new"
    /\ Pop
    /\ LET e == InstanceNewResult(Top.store, result, payload, Top.dispatch_thunk,
                                  Top.call.wasm)
       IN /\ sandbox_store' = e.store
          /\ unwinding' = e.panic
          /\ ret' = Ret("instance_new", e.kind, e.code, e.val)
    /\ UNCHANGED <<allocator, panic_message, memory, table>>

\* store.instantiate returns, or panics in the guest.
instance_new_return(result) ==
    /\ Running
    /\ InstanceNewFinish(result, PanicGuest)

\* A panic raised in a nested host call reaches the catch_unwind of instance_new.
instance_new_unwind ==
    /\ ~Running
    /\ InstanceNewFinish("Panic", unwinding)

\* ------------------------------------------------------- SandboxContext
\* SandboxContext::invoke: the guest calls the dispatch thunk of its frame.
\* The dispatch thunk called with the function index before the state tag.
SandboxInvokeSwapsArguments(invoke_args_ptr, invoke_args_len, func_idx) ==
    /\ Running /\ Depth > 0 /\ Top.op \in {"invoke", "instance_new"}
    /\ Depth < MaxDepth
    /\ Push(Frame("thunk", Top.dispatch_thunk, Top.state, None,
                  [args |-> <<invoke_args_ptr, invoke_args_len, func_idx, Top.state>>]))
    /\ UNCHANGED <<sandbox_store, allocator, panic_message, memory, table, unwinding, ret>>

sandbox_invoke(invoke_args_ptr, invoke_args_len, func_idx) ==
    /\ Running /\ Depth > 0 /\ Top.op \in {"invoke", "instance_new"}
    /\ Depth < MaxDepth
    /\ Push(Frame("thunk", Top.dispatch_thunk, Top.state, None,
                  [args |-> <<invoke_args_ptr, invoke_args_len, Top.state, func_idx>>]))
    /\ UNCHANGED <<sandbox_store, allocator, panic_message, memory, table, unwinding, ret>>

ThunkResults == {"i64", "i32", "trap"}

\* Lines 447-455: the dispatch thunk returns or traps.
ThunkResult(result, ret_val) ==
    IF result = "i64" THEN [kind |-> "Ok", val |-> ret_val]
    ELSE [kind |-> "Err", val |-> 0]

sandbox_invoke_return(result, ret_val) ==
    /\ Running /\ Depth > 0 /\ Top.op = "thunk"
    /\ Pop
    /\ LET r == ThunkResult(result, ret_val) IN
        ret' = Ret("SandboxContext::invoke", r.kind, NoCode, r.val)
    /\ UNCHANGED <<sandbox_store, allocator, panic_message, memory, table, unwinding>>

\* A panic of a nested host call unwinds through the dispatch thunk's frames.
sandbox_invoke_unwind ==
    /\ ~Running /\ Depth > 0 /\ Top.op = "thunk"
    /\ Pop
    /\ UNCHANGED <<sandbox_store, allocator, panic_message, memory, table, unwinding, ret>>

\* ------------------------------------------------------------ runtime entry
\* The runtime call is over (it returned, or a panic reached the entry point):
\* the next one starts from HostState::new.
HostState_new ==
    /\ stack = <<>>
    /\ sandbox_store' = Some(EmptyStore)
    /\ allocator' = Some(NewAllocator)
    /\ panic_message' = None
    /\ memory' = [i \in 1..MemSize |-> 0]
    /\ unwinding' = NoPanic
    /\ ret' = NoRet
    /\ UNCHANGED <<table, stack>>

\* ------------------------------------------------------------------- Next
MemIds == 0..MaxMemories
InstIds == 0..MaxInstances
Pages == {1, 2}
Offsets == {0, 2 * PageBytes}
Lens == {0, 2}
HostPtrs == {0, MemSize - 1}
RetPtrs == {1, MemSize - 3}
RetLens == {6, 10}

\* The operations, grouped by the capability that offers them. Each group takes
\* the sets its inputs are drawn from.
AllocatorCalls ==
    \/ \E size \in Sizes, fault \in BOOLEAN : allocate_memory(size, fault)
    \/ \E ptr \in Ptrs, fault \in BOOLEAN : deallocate_memory(ptr, fault)
    \/ allocation_stats

MemoryAccessCalls ==
    \/ \E address \in HostPtrs, len \in Lens : read_memory_into(address, len)
    \/ \E address \in HostPtrs, data \in {<<1, 2>>} : write_memory(address, data)

PanicMessageCalls(messages) ==
    \/ \E message \in messages : register_panic_error_message(message)
    \/ take_panic_message

\* The registry has handed out fewer than `cap` ids of the kind.
MemoryRoom(cap) == IsSome(sandbox_store) => Unwrap(sandbox_store).next_memory < cap
InstanceRoom(cap) == IsSome(sandbox_store) => Unwrap(sandbox_store).next_instance < cap

MemoryLifecycleCalls(pages, cap) ==
    \/ \E initial \in pages, maximum \in pages :
          MemoryRoom(cap) /\ memory_new(initial, maximum)
    \/ \E id \in MemIds : memory_teardown(id)

MemoryCopyCalls(offsets, ptrs, lens) ==
    \/ \E id \in MemIds, offset \in offsets, ptr \in ptrs, len \in lens :
          memory_get(id, offset, ptr, len)
    \/ \E id \in MemIds, offset \in offsets, ptr \in ptrs, len \in lens :
          memory_set(id, offset, ptr, len)

MemoryPageCalls ==
    \/ \E id \in MemIds : memory_size(id)
    \/ \E id \in MemIds, pages_num \in {1} : memory_grow(id, pages_num)
    \/ \E id \in MemIds : get_buff(id)

InstanceCalls(idxs, envs, tags, cap) ==
    \/ \E idx \in idxs, wasm \in Wasm, env \in envs, state \in tags :
          InstanceRoom(cap) /\ instance_new(idx, wasm, env, state)
    \/ \E result \in InstantiateResults : instance_new_return(result)
    \/ \E id \in InstIds : instance_teardown(id)

GlobalCalls(names) ==
    \E id \in InstIds, name \in names, value \in GlobalVals : set_global_i64(id, name, value)

InstanceLookupCalls(names) ==
    \/ \E id \in InstIds, name \in names : get_global_val(id, name)
    \/ \E id \in InstIds, name \in names : get_global_i64(id, name)
    \/ \E id \in InstIds : get_instance_ptr(id)

InvokeCalls(encoded, ptrs, lens, tags, results) ==
    \/ \E id \in InstIds, name \in ExportNames, args \in encoded,
          return_val \in ptrs, return_val_len \in lens, state \in tags :
          invoke(id, name, args, return_val, return_val_len, state)
    \/ \E result \in results : invoke_return(result)

BridgeCalls ==
    \/ \E func_idx \in {0} : sandbox_invoke(0, 2, func_idx)
    \/ \E result \in ThunkResults, ret_val \in {3} : sandbox_invoke_return(result, ret_val)

\* A panic of a nested host call on its way out of an instantiation.
NestedUnwind == sandbox_invoke_unwind \/ instance_new_unwind

Next ==
    \/ AllocatorCalls
    \/ MemoryAccessCalls
    \/ PanicMessageCalls({"panicked"})
    \/ MemoryLifecycleCalls(Pages, MaxMemories)
    \/ MemoryCopyCalls(Offsets, HostPtrs, Lens)
    \/ MemoryPageCalls
    \/ InstanceCalls(TableIdx, EnvDefs, Tags, MaxInstances)
    \/ GlobalCalls(Names)
    \/ InstanceLookupCalls(Names)
    \/ InvokeCalls(EncodedArgs, RetPtrs, RetLens, Tags, InvokeResults)
    \/ BridgeCalls
    \/ NestedUnwind
    \/ invoke_unwind
    \/ HostState_new

Spec == Init /\ [][Next]_vars

\* The take / restore discipline of the two slots of HostState: the allocator
\* calls, instantiation with the calls nested in it, and the registry calls that
\* find the slot empty.
NextSlots ==
    \/ AllocatorCalls \/ InstanceCalls(TableIdx, EnvDefs, {0}, MaxInstances) \/ BridgeCalls
    \/ NestedUnwind \/ MemoryLifecycleCalls({1}, FewMemories) \/ HostState_new
SpecSlots == Init /\ [][NextSlots]_vars

\* The outcomes of instance_new and of the calls on an instance's globals.
NextInstances ==
    \/ InstanceCalls(TableIdx, EnvDefs, {0}, MaxInstances) \/ GlobalCalls(Names) \/ BridgeCalls
    \/ NestedUnwind \/ HostState_new
SpecInstances == Init /\ [][NextInstances]_vars

\* The registry's ids: every call that creates, removes or names an entry.
NextRegistry ==
    \/ MemoryLifecycleCalls({1}, MaxMemories) \/ MemoryCopyCalls({0}, {0}, {2})
    \/ MemoryPageCalls \/ InstanceCalls({0}, {"env"}, {0}, MaxInstances)
    \/ GlobalCalls({"a"}) \/ InstanceLookupCalls({"a"})
    \/ InvokeCalls(EncodedArgs, {1}, {10}, {0}, {[tag |-> "OkNone", val |-> I32(0)]}) \/ HostState_new
SpecRegistry == Init /\ [][NextRegistry]_vars

\* Invocation of an export: the result written to the caller's memory.
NextInvoke ==
    \/ MemoryAccessCalls \/ InstanceCalls({0}, {"env"}, {0}, MaxInstances)
    \/ InvokeCalls({<<0>>}, RetPtrs, RetLens, {0}, InvokeResults) \/ BridgeCalls \/ NestedUnwind
    \/ HostState_new
SpecInvoke == Init /\ [][NextInvoke]_vars

\* The copies between a sandboxed memory and the caller's memory.
NextCopy ==
    \/ MemoryAccessCalls \/ MemoryLifecycleCalls(Pages, FewMemories)
    \/ MemoryCopyCalls(Offsets, HostPtrs, Lens)
    \/ HostState_new
SpecCopy == Init /\ [][NextCopy]_vars
\* ======================================================================
\* Properties
\* ======================================================================
\* The pages of a sandboxed memory: creation with every pair of limits, growth
\* by one or two pages, and the copies that reach the second page.
MorePages == {1, 2, 3}
MemoryGrowCalls(pages) ==
    \/ \E id \in MemIds : memory_size(id)
    \/ \E id \in MemIds, pages_num \in pages : memory_grow(id, pages_num)

NextPages ==
    \/ MemoryLifecycleCalls(MorePages, FewMemories) \/ MemoryGrowCalls(Pages)
    \/ MemoryCopyCalls({PageBytes}, {0}, {2}) \/ HostState_new
SpecPages == Init /\ [][NextPages]_vars

\* The caller's linear memory: reads and writes at, across and beyond its end.
Addresses == {0, 1, MemSize - 2, MemSize - 1, MemSize}
Buffers == {<<>>, <<3>>, <<1, 2>>}
MemoryTransferCalls(addresses, lens, buffers) ==
    \/ \E address \in addresses, len \in lens : read_memory_into(address, len)
    \/ \E address \in addresses, data \in buffers : write_memory(address, data)

NextAccess == MemoryTransferCalls(Addresses, 0..2, Buffers) \/ HostState_new
SpecAccess == Init /\ [][NextAccess]_vars

\* The Invocation Bridge: guest code started by invoke or instance_new calls the
\* supervisor, with arguments that tell the four positions apart.
ArgPtrs == {4, 5}
ArgLens == {2}
FuncIdxs == {3}
ThunkVals == {8, 9}
BridgeCallsOn(ptrs, lens, idxs, vals) ==
    \/ \E ptr \in ptrs, len \in lens, func_idx \in idxs : sandbox_invoke(ptr, len, func_idx)
    \/ \E result \in ThunkResults, ret_val \in vals : sandbox_invoke_return(result, ret_val)

NextBridge ==
    \/ InstanceCalls({0, 1}, {"env"}, Tags, MaxInstances)
    \/ InvokeCalls(EncodedArgs, {1}, {10}, Tags, {[tag |-> "OkNone", val |-> I32(0)]})
    \/ BridgeCallsOn(ArgPtrs, ArgLens, FuncIdxs, ThunkVals) \/ HostState_new
SpecBridge == Init /\ [][NextBridge]_vars

\* The panic message: guests of an instantiation or an invocation register
\* descriptions, the entry point takes them.
Messages == {"m1", "m2"}
NextPanic ==
    \/ PanicMessageCalls(Messages) \/ InstanceCalls({0}, {"env"}, {0}, MaxInstances)
    \/ InvokeCalls({<<0>>}, {1}, {10}, {0}, {[tag |-> "OkNone", val |-> I32(0)]})
    \/ HostState_new
SpecPanic == Init /\ [][NextPanic]_vars

PanicResult == [tag |-> "Panic", val |-> I32(0)]

\* A call of allocate_memory, deallocate_memory or instance_new made with no
\* other host call in progress returns to its caller or unwinds out of it.
OutermostExit ==
    \/ /\ stack = <<>>
       /\ \/ \E size \in Sizes, fault \in BOOLEAN : allocate_memory(size, fault)
          \/ \E ptr \in Ptrs, fault \in BOOLEAN : deallocate_memory(ptr, fault)
    \/ /\ stack = <<>> /\ stack' = <<>>
       /\ \E idx \in TableIdx, wasm \in Wasm, env \in EnvDefs, state \in Tags :
             instance_new(idx, wasm, env, state)
    \/ /\ Depth = 1
       /\ \/ \E result \in InstantiateResults : instance_new_return(result)
          \/ instance_new_unwind

\* C1: whenever an outermost allocate_memory, deallocate_memory or instance_new
\* call returns or unwinds (an allocator or instantiation panic included), the
\* allocator slot and the registry slot are both Some.
C1_SlotsPresentOnExit ==
    [][OutermostExit => (IsSome(allocator') /\ IsSome(sandbox_store'))]_vars

\* instance_new is left by a panic: raised by the guest during instantiation, or
\* by a host call nested in it.
InstanceNewPanics ==
    \/ instance_new_return("Panic")
    \/ instance_new_unwind

\* C2: when the instantiation inside instance_new panics, instance_new is left
\* with the registry it took back in its slot and with the same panic still
\* unwinding: no status code, no Err, no swallowed panic.
C2_PanicRestoresThenResumes ==
    [][InstanceNewPanics =>
        /\ sandbox_store' = Top.store /\ IsSome(sandbox_store')
        /\ unwinding' = (IF Running THEN PanicGuest ELSE unwinding)
        /\ unwinding' # NoPanic
        /\ ret' = Ret("instance_new", "Panic", NoCode, 0)
        /\ stack' = SubSeq(stack, 1, Len(stack) - 1)]_vars

\* C2 witness: a host call nested in an instantiation found the registry taken,
\* and its panic has left instance_new with the registry back in place.
C2_Witness ==
    /\ ret = Ret("instance_new", "Panic", NoCode, 0)
    /\ unwinding = PanicStoreBorrowed
    /\ stack = <<>>
    /\ IsSome(sandbox_store)

\* The allocator refuses the request: too large, no room, or not a live block.
AllocateFails(size) == ~Allocate(Unwrap(allocator), size, FALSE).ok
DeallocateFails(ptr) == ~Deallocate(Unwrap(allocator), ptr, FALSE).ok

\* C3: an allocator error makes allocate_memory / deallocate_memory return Err
\* with the allocator back in its slot, and every call that starts later in the
\* runtime entry (a call starts only while nothing unwinds) finds it there.
C3_ErrorKeepsAllocator ==
    /\ [](Running => IsSome(allocator))
    /\ [][\A size \in Sizes :
            (IsSome(allocator) /\ AllocateFails(size) /\ allocate_memory(size, FALSE))
            => (ret'.kind = "Err" /\ allocator' = allocator /\ unwinding' = NoPanic)]_vars
    /\ [][\A ptr \in Ptrs :
            (IsSome(allocator) /\ DeallocateFails(ptr) /\ deallocate_memory(ptr, FALSE))
            => (ret'.kind = "Err" /\ allocator' = allocator /\ unwinding' = NoPanic)]_vars

\* C3 witness: a request above the maximum was refused, a block is live, and
\* the allocator is in place for the next call.
C3_Witness ==
    /\ ret = Ret("allocate_memory", "Err", NoCode, 0)
    /\ Running
    /\ IsSome(allocator)
    /\ Unwrap(allocator).live # {}
\* The table entry at the index is there and is no function reference (a value
\* of another type, or a null reference).
NotFuncref(idx) ==
    /\ IsSome(table) /\ idx < Len(Unwrap(table))
    /\ Unwrap(table)[idx + 1] \notin Funcs

\* C4 as stated: a dispatch-thunk index whose entry is not a function reference
\* makes instance_new return the module-error status code, registry unchanged.
C4_Original ==
    [][\A idx \in TableIdx, wasm \in Wasm, env \in EnvDefs, state \in Tags :
        (NotFuncref(idx) /\ instance_new(idx, wasm, env, state))
        => (ret' = Ret("instance_new", "Ok", ERR_MODULE, 0)
            /\ sandbox_store' = sandbox_store)]_vars

\* C4 amended: a dispatch-thunk index whose entry is not a function reference
\* makes instance_new fail with a hard error (Err), the registry slot is left as
\* it was (no id consumed, nothing taken) and no guest code is started.
C4_NonFuncrefIsHardError ==
    [][\A idx \in TableIdx, wasm \in Wasm, env \in EnvDefs, state \in Tags :
        (NotFuncref(idx) /\ instance_new(idx, wasm, env, state))
        => (/\ ret'.op = "instance_new" /\ ret'.kind = "Err"
            /\ ret'.code \in {ErrThunkNotFuncref, ErrThunkNull}
            /\ sandbox_store' = sandbox_store
            /\ stack' = stack
            /\ unwinding' = NoPanic)]_vars

\* C4 witness: with an instance registered, instance_new was refused because
\* the table entry is not a funcref, and the instance is still the only one.
C4_Witness ==
    /\ ret = Ret("instance_new", "Err", ErrThunkNotFuncref, 0)
    /\ IsSome(sandbox_store)
    /\ Len(Unwrap(sandbox_store).instances) = 1
    /\ Unwrap(sandbox_store).next_instance = 1

\* C5: invoke whose export returns a value with an encoding longer than
\* return_val_len fails with Err and leaves the caller's memory untouched.
C5_ReturnValueTooLarge ==
    [][\A v \in Values :
        (/\ Depth > 0 /\ Top.op = "invoke"
         /\ Len(EncodeReturnValue(v)) > Top.call.return_val_len
         /\ invoke_return([tag |-> "OkSome", val |-> v]))
        => (ret' = Ret("invoke", "Err", ErrBufferTooSmall, 0) /\ memory' = memory)]_vars

\* C5 witness: the buffer was too small for the value although the caller's
\* memory had room at return_val, and memory holds what was written before.
C5_Witness ==
    /\ ret = Ret("invoke", "Err", ErrBufferTooSmall, 0)
    /\ stack = <<>>
    /\ memory[1] = 1 /\ memory[2] = 2

\* The sandboxed memory `memory_id` is live and one of the two ranges of the
\* copy is out of range.
CopyOutOfRange(memory_id, offset, ptr, len) ==
    /\ IsSome(sandbox_store)
    /\ IsSome(Lookup(Unwrap(sandbox_store).memories, memory_id))
    /\ \/ ~InBounds(offset, len, Len(Unwrap(Lookup(Unwrap(sandbox_store).memories,
                                                     memory_id)).data))
       \/ ~InBounds(ptr, len, Len(memory))

\* C6: memory_get and memory_set on a sandboxed memory answer every copy whose
\* sandbox-side range or host-side range is out of range with the out-of-bounds
\* status code, as an Ok result.
C6_OutOfRangeIsStatusCode ==
    [][\A id \in MemIds, offset \in Offsets, ptr \in HostPtrs, len \in Lens :
        /\ (CopyOutOfRange(id, offset, ptr, len) /\ memory_get(id, offset, ptr, len))
           => ret' = Ret("memory_get", "Ok", ERR_OUT_OF_BOUNDS, 0)
        /\ (CopyOutOfRange(id, offset, ptr, len) /\ memory_set(id, offset, ptr, len))
           => ret' = Ret("memory_set", "Ok", ERR_OUT_OF_BOUNDS, 0)]_vars

\* C6 witness: memory_get answered out-of-bounds on a live two-page memory (whose
\* sandbox-side range is in range whenever the length is 0).
C6_Witness ==
    /\ ret = Ret("memory_get", "Ok", ERR_OUT_OF_BOUNDS, 0)
    /\ IsSome(sandbox_store)
    /\ \E i \in 1..Len(Unwrap(sandbox_store).memories) :
          Unwrap(sandbox_store).memories[i].size = 2

\* The registries of a state: the one in the slot and the ones taken by an
\* instance_new in progress.
Registries ==
    {Unwrap(sandbox_store) : x \in {1} \cap (IF IsSome(sandbox_store) THEN {1} ELSE {})}
    \cup {Unwrap(stack[i].store) : i \in {j \in 1..Len(stack) : IsSome(stack[j].store)}}

UniqueIds(entries) ==
    \A i, j \in 1..Len(entries) : entries[i].id = entries[j].id => i = j

DeadMemory(id) == IsSome(sandbox_store) /\ IsNone(Lookup(Unwrap(sandbox_store).memories, id))
DeadInstance(id) == IsSome(sandbox_store) /\ IsNone(Lookup(Unwrap(sandbox_store).instances, id))
HardError == ret'.kind = "Err" /\ unwinding' = NoPanic /\ UNCHANGED <<sandbox_store, memory, stack>>

\* The step is the call `A` of operation `op`.  `A` alone says as much; naming
\* the operation first spares evaluating `A` on the steps of other operations.
Call(op, A) == ret'.op = op /\ A

\* C7: in every registry no two live memories and no two live instances share
\* an id, and every operation that names an id with no live entry (torn down, or
\* never handed out) fails with Err, changing nothing.
C7_UniqueIdsDeadIdsFail ==
    /\ [](\A r \in Registries : UniqueIds(r.memories) /\ UniqueIds(r.instances))
    /\ [][\A id \in MemIds :
            (/\ DeadMemory(id)
             /\ \/ Call("memory_teardown", memory_teardown(id))
                \/ Call("memory_get", memory_get(id, 0, 0, 2))
                \/ Call("memory_set", memory_set(id, 0, 0, 2))
                \/ Call("memory_size", memory_size(id))
                \/ Call("memory_grow", memory_grow(id, 1))
                \/ Call("get_buff", get_buff(id)))
            => HardError]_vars
    /\ [][\A id \in InstIds :
            (/\ DeadInstance(id)
             /\ \/ Call("instance_teardown", instance_teardown(id))
                \/ Call("get_instance_ptr", get_instance_ptr(id))
                \/ Call("get_global_val", get_global_val(id, "a"))
                \/ Call("get_global_i64", get_global_i64(id, "a"))
                \/ Call("set_global_i64", \E v \in GlobalVals : set_global_i64(id, "a", v))
                \/ Call("invoke", \E n \in ExportNames, a \in EncodedArgs :
                                     invoke(id, n, a, 1, 10, 0)))
            => HardError]_vars

\* C7 witness: the first memory and the first instance were torn down, the
\* second ones are live under their own ids, and a call on a dead id failed.
C7_Witness ==
    /\ IsSome(sandbox_store)
    /\ LiveIds(Unwrap(sandbox_store).memories) = {1}
    /\ LiveIds(Unwrap(sandbox_store).instances) = {1}
    /\ ret = Ret("memory_get", "Err", ErrNotFound, 0)

\* C8: when the export traps or cannot be executed, invoke returns the
\* execution-error status code as an Ok result, nothing unwinds, and the
\* caller's memory is untouched.
C8_TrapIsExecutionError ==
    /\ [][invoke_return([tag |-> "Err", val |-> I32(0)])
          => (/\ ret' = Ret("invoke", "Ok", ERR_EXECUTION, 0)
              /\ unwinding' = NoPanic
              /\ memory' = memory)]_vars
    /\ [][\A id \in InstIds :
            (/\ ~DeadInstance(id) /\ IsSome(sandbox_store)
             /\ \E ptr \in RetPtrs, len \in RetLens : invoke(id, "missing", <<0>>, ptr, len, 0))
            => (/\ ret' = Ret("invoke", "Ok", ERR_EXECUTION, 0)
                /\ unwinding' = NoPanic
                /\ memory' = memory)]_vars

\* C8 witness: invoke answered execution error while another invoke is still
\* in progress below it, and memory holds what was written before.
C8_Witness ==
    /\ ret = Ret("invoke", "Ok", ERR_EXECUTION, 0)
    /\ Running
    /\ Depth > 0 /\ stack[1].op = "invoke"
    /\ memory[1] = 1

GlobalCodes == {ERROR_GLOBALS_NOT_FOUND, ERROR_GLOBALS_OK, ERROR_GLOBALS_OTHER}

\* C9 as stated: set_global_i64 returns one of the three status codes, never a
\* hard error, for every instance id, name and value.
C9_Original ==
    [][\A id \in InstIds, name \in Names, value \in GlobalVals :
        set_global_i64(id, name, value)
        => (ret'.kind = "Ok" /\ ret'.code \in GlobalCodes)]_vars

\* C9 amended: for every instance id that is live in the registry, every name and
\* every value, set_global_i64 returns one of the three status codes as an Ok
\* result (not-found for no such global, ok for a mutable i64 global, other for
\* any other global); for an id with no live instance it fails with Err.
C9_LiveInstanceGetsStatusCode ==
    [][\A id \in InstIds, name \in Names, value \in GlobalVals :
        /\ (IsSome(sandbox_store) /\ ~DeadInstance(id) /\ set_global_i64(id, name, value))
           => (/\ ret'.kind = "Ok" /\ ret'.code \in GlobalCodes
               /\ ret'.code = (IF name = "a" THEN ERROR_GLOBALS_OK
                               ELSE IF name = "b" THEN ERROR_GLOBALS_OTHER
                               ELSE ERROR_GLOBALS_NOT_FOUND)
               /\ unwinding' = NoPanic)
        /\ (DeadInstance(id) /\ set_global_i64(id, name, value))
           => (ret' = Ret("set_global_i64", "Err", ErrNotFound, 0)
               /\ unwinding' = NoPanic)]_vars

\* C9 witness: a live instance, and set_global_i64 answered the other-error code.
C9_Witness ==
    /\ ret = Ret("set_global_i64", "Ok", ERROR_GLOBALS_OTHER, 0)
    /\ IsSome(sandbox_store)
    /\ Unwrap(sandbox_store).instances # <<>>

\* C10: when store.instantiate returns without panicking, instance_new gives
\* exactly one of three answers: the new id, with the instance registered under
\* it together with the dispatch thunk of the call's table index and nothing
\* else changed; the execution-error code for a trapped start function; the
\* module-error code for any other failure. The failures register nothing.
C10_ThreeOutcomes ==
    [][\A result \in InstantiateResults \ {"Panic"} :
        (Depth > 0 /\ instance_new_return(result))
        => LET before == Unwrap(Top.store)
               thunk == Unwrap(table)[Top.call.dispatch_thunk_id + 1]
           IN /\ ret'.op = "instance_new" /\ ret'.kind = "Ok"
              /\ unwinding' = NoPanic
              /\ IsSome(sandbox_store')
              /\ result = "Ok" =>
                    /\ ret'.code = NoCode
                    /\ ret'.val \notin LiveIds(before.instances)
                    /\ Unwrap(sandbox_store').instances =
                          Append(before.instances,
                                 [id |-> ret'.val, dispatch_thunk |-> thunk,
                                  wasm |-> Top.call.wasm])
                    /\ Unwrap(sandbox_store').memories = before.memories
              /\ result = "StartTrapped" =>
                    ret'.code = ERR_EXECUTION /\ sandbox_store' = Top.store
              /\ result = "ModuleError" =>
                    ret'.code = ERR_MODULE /\ sandbox_store' = Top.store]_vars

\* C10 witness: a second instance was registered, under id 1, with a dispatch
\* thunk other than the first instance's.
C10_Witness ==
    /\ ret = Ret("instance_new", "Ok", NoCode, 1)
    /\ IsSome(sandbox_store)
    /\ Len(Unwrap(sandbox_store).instances) = 2
    /\ Unwrap(sandbox_store).instances[1].dispatch_thunk
         # Unwrap(sandbox_store).instances[2].dispatch_thunk
\* The live sandboxed memory of the id, in the registry of the slot.
LiveMemory(id) == Unwrap(Lookup(Unwrap(sandbox_store).memories, id))
IsLiveMemory(id) == IsSome(sandbox_store) /\ ~DeadMemory(id)

\* C11: every live sandboxed memory has initial <= size <= maximum pages (and
\* size pages of data); memory_grow(p) above the maximum fails with Err and
\* changes nothing, memory_grow(p) within it succeeds and raises the size by p,
\* touching nothing else; memory_size answers the size.
C11_GrowWithinLimits ==
    /\ [](\A r \in Registries : \A i \in 1..Len(r.memories) :
            /\ r.memories[i].initial <= r.memories[i].size
            /\ r.memories[i].size <= r.memories[i].maximum
            /\ Len(r.memories[i].data) = r.memories[i].size * PageBytes)
    /\ [][\A id \in MemIds, p \in Pages :
            (IsLiveMemory(id) /\ Call("memory_grow", memory_grow(id, p)))
            => IF LiveMemory(id).size + p > LiveMemory(id).maximum
               THEN /\ ret' = Ret("memory_grow", "Err", ErrGrow, 0)
                    /\ sandbox_store' = sandbox_store
               ELSE /\ ret'.kind = "Ok"
                    /\ IsSome(sandbox_store')
                    /\ Unwrap(sandbox_store').memories =
                          Replace(Unwrap(sandbox_store).memories, id,
                                  [LiveMemory(id) EXCEPT
                                     !.size = @ + p,
                                     !.data = @ \o [i \in 1..(p * PageBytes) |-> 0]])
                    /\ Unwrap(sandbox_store').instances = Unwrap(sandbox_store).instances]_vars
    /\ [][\A id \in MemIds :
            (IsLiveMemory(id) /\ Call("memory_size", memory_size(id)))
            => (ret' = Ret("memory_size", "Ok", NoCode, LiveMemory(id).size)
                /\ sandbox_store' = sandbox_store)]_vars

\* C11 witness: the memory made with initial 1 and maximum 2 has grown to 2
\* pages and a further memory_grow was refused.
C11_Witness ==
    /\ ret = Ret("memory_grow", "Err", ErrGrow, 0)
    /\ IsSome(sandbox_store)
    /\ \E i \in 1..Len(Unwrap(sandbox_store).memories) :
          LET m == Unwrap(sandbox_store).memories[i] IN
          m.initial = 1 /\ m.maximum = 2 /\ m.size = 2

\* C12: read_memory_into and write_memory on a range that ends beyond the
\* linear memory fail and copy nothing; an in-bounds write_memory puts exactly
\* its data in the range and leaves every other byte as it was, and an in-bounds
\* read_memory_into returns exactly the bytes of the range, so that reading a
\* range just written returns the bytes written.
C12_BoundsAndRoundTrip ==
    /\ [][\A address \in Addresses, len \in 0..2 :
            read_memory_into(address, len)
            => /\ memory' = memory
               /\ IF address + len > Len(memory)
                  THEN ret'.kind = "Err" /\ ret'.data = <<>>
                  ELSE /\ ret'.kind = "Ok"
                       /\ ret'.data = [i \in 1..len |-> memory[address + i]]]_vars
    /\ [][\A address \in Addresses, data \in Buffers :
            write_memory(address, data)
            => IF address + Len(data) > Len(memory)
               THEN ret'.kind = "Err" /\ memory' = memory
               ELSE /\ ret'.kind = "Ok"
                    /\ Len(memory') = Len(memory)
                    /\ \A i \in 1..Len(data) : memory'[address + i] = data[i]
                    /\ \A j \in 1..Len(memory) :
                          (j <= address \/ j > address + Len(data))
                          => memory'[j] = memory[j]]_vars

\* C12 witness: the two bytes written at the very end of the memory were read
\* back, and the byte written at its start is still there.
C12_Witness ==
    /\ ret.op = "read_memory_into" /\ ret.kind = "Ok"
    /\ ret.data = <<1, 2>>
    /\ memory[1] = 3
    /\ memory[MemSize - 1] = 1 /\ memory[MemSize] = 2

\* C13: the bridge's invoke calls the dispatch thunk of the guest call in
\* progress with exactly the four arguments (arguments pointer, arguments length,
\* state tag, function index), in that order; it returns the thunk's value when
\* the thunk yields one 64-bit integer and a call error when the thunk traps or
\* yields anything else.
C13_BridgePassesFourArguments ==
    /\ [][\A ptr \in ArgPtrs, len \in ArgLens, func_idx \in FuncIdxs :
            sandbox_invoke(ptr, len, func_idx)
            => /\ Len(stack') = Len(stack) + 1
               /\ SubSeq(stack', 1, Len(stack)) = stack
               /\ stack'[Len(stack')].op = "thunk"
               /\ stack'[Len(stack')].dispatch_thunk = Top.dispatch_thunk
               /\ stack'[Len(stack')].call.args = <<ptr, len, Top.state, func_idx>>]_vars
    /\ [][\A ret_val \in ThunkVals :
            /\ sandbox_invoke_return("i64", ret_val)
               => ret' = Ret("SandboxContext::invoke", "Ok", NoCode, ret_val)
            /\ (sandbox_invoke_return("i32", ret_val) \/ sandbox_invoke_return("trap", ret_val))
               => (ret'.op = "SandboxContext::invoke" /\ ret'.kind = "Err")]_vars

\* C13 witness: a first call through the bridge returned the thunk's value 9,
\* and the thunk is being called again, for an invoke with state tag 1.
C13_Witness ==
    /\ ret = Ret("SandboxContext::invoke", "Ok", NoCode, 9)
    /\ Depth = 2 /\ stack[1].op = "invoke" /\ stack[1].state = 1
    /\ stack[2].op = "thunk"
    /\ stack[2].call.args = <<5, 2, 1, 3>>

\* C14: the panic-message slot starts empty; registering a description writes
\* it; nothing but a registration, a take or a new HostState changes the slot;
\* take_panic_message returns what the slot holds and leaves it empty, so that a
\* take with no registration since the last take returns None.
C14_MessageTakenOnce ==
    /\ panic_message = None
    /\ [][\A message \in Messages :
            register_panic_error_message(message) => panic_message' = Some(message)]_vars
    /\ [][take_panic_message
          => /\ panic_message' = None
             /\ IsSome(panic_message)
                   => ret' = Ret("take_panic_message", "Some", Unwrap(panic_message), 0)
             /\ IsNone(panic_message)
                   => ret' = Ret("take_panic_message", "None", NoCode, 0)]_vars
    /\ [][panic_message' # panic_message
          => \/ \E message \in Messages : register_panic_error_message(message)
             \/ take_panic_message
             \/ HostState_new]_vars

\* C14 witness: with an instance registered, the entry point took the message
\* "m2" and the slot is empty again.
C14_Witness ==
    /\ ret = Ret("take_panic_message", "Some", "m2", 0)
    /\ panic_message = None
    /\ IsSome(sandbox_store) /\ Unwrap(sandbox_store).instances # <<>>

\* The dispatch thunk is running on behalf of a guest: whatever host call comes
\* next is one it makes through the supervisor context.
InThunk == stack # <<>> /\ Top.op = "thunk"

\* C15: while an instance_new or an invoke is in flight, the host calls the
\* dispatch thunk makes through the supervisor context (memory reads and writes,
\* further sandbox operations) complete against the registry: none of them
\* finds the registry slot empty.
C15_NestedOperationsComplete ==
    [][InThunk => unwinding' # PanicStoreBorrowed]_vars

\* The table is there and its entry at the index is a function.
ThunkResolves(idx) ==
    /\ IsSome(table) /\ idx < Len(Unwrap(table))
    /\ Unwrap(table)[idx + 1] \in Funcs

ThunkErrors == {ErrNoTable, ErrThunkOutOfBounds, ErrThunkNotFuncref, ErrThunkNull}

\* C16: instance_new resolves the dispatch thunk, then decodes the environment
\* definition against the registry, then takes the registry and instantiates.
\* A thunk that does not resolve is a hard error whatever the environment
\* definition and whether or not the registry is in its slot; with a resolved
\* thunk a malformed environment definition is the module-error status code;
\* in both cases the registry slot and the call stack are left as they were
\* (nothing taken, no guest code started). Only with both steps passed is the
\* registry moved out of its slot into the call and the guest started.
C16_ResolveDecodeTakeInstantiate ==
    [][\A idx \in TableIdx, wasm \in Wasm, env \in EnvDefs, state \in Tags :
        Call("instance_new", instance_new(idx, wasm, env, state))
        => /\ ~ThunkResolves(idx)
                => /\ ret'.kind = "Err" /\ ret'.code \in ThunkErrors
                   /\ sandbox_store' = sandbox_store /\ stack' = stack
                   /\ unwinding' = NoPanic
           /\ (ThunkResolves(idx) /\ IsSome(sandbox_store) /\ env = "malformed")
                => /\ ret' = Ret("instance_new", "Ok", ERR_MODULE, 0)
                   /\ sandbox_store' = sandbox_store /\ stack' = stack
                   /\ unwinding' = NoPanic]_vars
    /\ [][\A idx \in TableIdx, wasm \in Wasm, env \in EnvDefs, state \in Tags :
            (instance_new(idx, wasm, env, state) /\ stack' # stack)
            => /\ ThunkResolves(idx) /\ env # "malformed"
               /\ IsSome(sandbox_store) /\ sandbox_store' = None
               /\ stack' = Append(stack, Top') /\ Top'.op = "instance_new"
               /\ Top'.store = sandbox_store
               /\ Top'.dispatch_thunk = Unwrap(table)[idx + 1]]_vars

\* C16 witness: with an instance registered, an instance_new with a resolved
\* thunk and a malformed environment definition was answered by the
\* module-error code, the registry in its slot and no call in progress.
C16_Witness ==
    /\ ret = Ret("instance_new", "Ok", ERR_MODULE, 0)
    /\ stack = <<>>
    /\ IsSome(sandbox_store) /\ Len(Unwrap(sandbox_store).instances) = 1

\* An instance_new call is between taking the registry (line 318) and putting
\* it back (line 334).
InstantiationWindow == \E i \in 1..Len(stack) : stack[i].op = "instance_new"

\* C17: the registry slot is empty only inside the instantiation window of an
\* instance_new call; in every other state (no call in progress, an invoke in
\* progress, after any memory or allocator call, after a panic has unwound)
\* the registry is in its slot.
C17_RegistryEmptyOnlyInWindow ==
    IsNone(sandbox_store) => InstantiationWindow

\* C17 witness: the registry is out of its slot while the dispatch thunk of an
\* instantiation has just written the caller's memory.
C17_Witness ==
    /\ IsNone(sandbox_store)
    /\ Depth = 2 /\ stack[1].op = "instance_new" /\ stack[2].op = "thunk"
    /\ ret = Ret("write_memory", "Ok", NoCode, 0)

\* The dispatch thunk the registry `r` holds for the instance id.
ThunkOf(r, id) == Unwrap(Lookup(r.instances, id)).dispatch_thunk

\* C18: the callbacks of an invoke go through the thunk registered for its
\* instance id and carry its state tag. (1) A successful instance_new registers
\* the new id with the thunk it resolved from its table index. (2) A live id
\* keeps that thunk for as long as the HostState lasts. (3) invoke binds the
\* guest call to the thunk registered for its instance_id and to its own state
\* argument. (4) Every call the guest of an invoke makes through the bridge
\* calls that thunk with that tag as third argument.
C18_InvokeUsesInstanceThunkAndOwnTag ==
    /\ [][(Call("instance_new", instance_new_return("Ok")))
          => /\ IsSome(Lookup(Unwrap(sandbox_store').instances, ret'.val))
             /\ ThunkOf(Unwrap(sandbox_store'), ret'.val)
                  = Unwrap(table)[Top.call.dispatch_thunk_id + 1]]_vars
    /\ [][(stack # <<>> \/ ~HostState_new)
          => \A r \in Registries, id \in InstIds :
                IsSome(Lookup(r.instances, id))
                => \A q \in Registries' :
                      IsSome(Lookup(q.instances, id)) => ThunkOf(q, id) = ThunkOf(r, id)]_vars
    /\ [][\A id \in InstIds, state \in Tags :
            (invoke(id, "call", <<0>>, 1, 10, state) /\ stack' # stack)
            => /\ stack' = Append(stack, Top')
               /\ Top'.op = "invoke" /\ Top'.call.instance_id = id
               /\ Top'.dispatch_thunk = ThunkOf(Unwrap(sandbox_store), id)
               /\ Top'.state = state]_vars
    /\ [][\A ptr \in ArgPtrs, len \in ArgLens, func_idx \in FuncIdxs :
            (Depth > 0 /\ Top.op = "invoke" /\ sandbox_invoke(ptr, len, func_idx))
            => /\ stack' = Append(stack, Top')
               /\ Top'.op = "thunk"
               /\ Top'.dispatch_thunk = Top.dispatch_thunk
               /\ Top'.call.args[3] = Top.state]_vars

\* C18 witness: two instances are registered with different thunks; the guest
\* of an invoke of the second one, made with state tag 1, is calling back, and
\* the call goes to the second instance's thunk with tag 1.
C18_Witness ==
    /\ IsSome(sandbox_store)
    /\ IsSome(Lookup(Unwrap(sandbox_store).instances, 0))
    /\ IsSome(Lookup(Unwrap(sandbox_store).instances, 1))
    /\ ThunkOf(Unwrap(sandbox_store), 0) = "f"
    /\ ThunkOf(Unwrap(sandbox_store), 1) = "g"
    /\ Depth = 2 /\ stack[1].op = "invoke"
    /\ stack[1].call.instance_id = 1 /\ stack[1].state = 1
    /\ stack[2].op = "thunk" /\ stack[2].dispatch_thunk = "g"
    /\ stack[2].call.args = <<4, 2, 1, 3>>

\* C19: invoke decodes its arguments first. Arguments that do not decode make
\* it fail with the decoding error (Err) for every instance id, live or not, and
\* also while the registry is out of its slot (the instance is not looked up);
\* arguments that decode with an instance id that is not live make it fail with
\* the registry's error (Err). In both cases no guest call is started and the
\* caller's memory, return buffer included, is not written.
C19_DecodeThenLookup ==
    [][\A id \in InstIds, args \in EncodedArgs :
        Call("invoke", invoke(id, "call", args, 1, 10, 0))
        => /\ ~DecodeArgs(args).ok
                => /\ ret' = Ret("invoke", "Err", ErrDecodeArgs, 0)
                   /\ unwinding' = NoPanic
                   /\ UNCHANGED <<stack, memory, sandbox_store>>
           /\ (DecodeArgs(args).ok /\ DeadInstance(id))
                => /\ ret' = Ret("invoke", "Err", ErrNotFound, 0)
                   /\ unwinding' = NoPanic
                   /\ UNCHANGED <<stack, memory, sandbox_store>>]_vars

\* C19 witness: the dispatch thunk of an instantiation called invoke with
\* arguments that do not decode; invoke failed on the arguments although the
\* registry is out of its slot.
C19_Witness ==
    /\ ret = Ret("invoke", "Err", ErrDecodeArgs, 0)
    /\ IsNone(sandbox_store)
    /\ Depth = 2 /\ stack[1].op = "instance_new" /\ stack[2].op = "thunk"

\* The ids of the registry's live entries.
Ids(entries) == {entries[i].id : i \in 1..Len(entries)}

\* C20: an instance_new call that does not succeed leaves the registry as it
\* was before the call. (1) A call that ends before the instantiation (hard
\* error, module-error code, registry found taken) leaves the slot as it is.
\* (2) A call that instantiates takes the registry as it is, and (3) holds it
\* unchanged for as long as it runs, whatever the guest and the calls nested in
\* it do. (4) When the instantiation fails (start function trapped, module
\* rejected, panic of the guest or of a nested call) the slot gets that registry
\* back. (5) When it succeeds the slot gets it back with one more instance, under
\* an id that was not live, every other instance and every memory as before.
C20_FailedInstanceNewKeepsRegistry ==
    /\ [][\A idx \in TableIdx, env \in EnvDefs :
            (stack' = stack /\ Call("instance_new", instance_new(idx, "w1", env, 0)))
            => sandbox_store' = sandbox_store]_vars
    /\ [][\A idx \in TableIdx, env \in EnvDefs :
            (instance_new(idx, "w1", env, 0) /\ stack' # stack)
            => (stack' = Append(stack, Top') /\ Top'.store = sandbox_store)]_vars
    /\ [][\A i \in 1..Len(stack) :
            (i <= Len(stack') /\ stack[i].op = "instance_new") => stack'[i] = stack[i]]_vars
    /\ [][(\/ instance_new_return("StartTrapped") \/ instance_new_return("ModuleError")
           \/ instance_new_return("Panic") \/ instance_new_unwind)
          => (sandbox_store' = Top.store /\ IsSome(sandbox_store'))]_vars
    /\ [][instance_new_return("Ok")
          => LET old == Unwrap(Top.store)
                 new == Unwrap(sandbox_store')
             IN /\ ret'.val \notin Ids(old.instances)
                /\ Ids(new.instances) = Ids(old.instances) \cup {ret'.val}
                /\ new.instances = Append(old.instances, new.instances[Len(new.instances)])
                /\ new.memories = old.memories]_vars

\* C20 witness: with a memory and an instance in the registry, an instance_new
\* whose start function trapped returned the execution-error code and the
\* registry still holds that memory and that instance only.
C20_Witness ==
    /\ ret = Ret("instance_new", "Ok", ERR_EXECUTION, 0)
    /\ stack = <<>>
    /\ IsSome(sandbox_store)
    /\ Ids(Unwrap(sandbox_store).instances) = {0}
    /\ Ids(Unwrap(sandbox_store).memories) = {0}

====
